---- MODULE Spec2Model ----
(***************************************************************************)
(* TinyWindow support libraries:                                           *)
(*   XA  rust/exec_adapter_stub/src/lib.rs  order submission stub          *)
(*   EA  rust/telemetry/src/lib.rs          metrics facade                 *)
(*   ES  rust/encryption_service/src/lib.rs keygen, sign, verify           *)
(* Each library is a set of operations called by concurrent threads on     *)
(* process-global state.  A thread's call is split at every access to      *)
(* shared state; purely local steps are merged into the neighbouring one.  *)
(***************************************************************************)
EXTENDS Integers, Sequences, FiniteSets, TLC

(***************************************************************************)
(* Bounds of the model.                                                    *)
(***************************************************************************)
NThreads == 2
MaxOrderId == 4
MaxOrdersTotal == 2
MaxObservations == 2

\* The threads calling the execution adapter.
Threads == 1..NThreads

\* The threads calling the telemetry (the producers and scrapers): two, enough
\* for every pair of overlapping calls.
Producers == {1, 2}

\* Sample order payloads (Vec<u8>): empty, one byte, several bytes.
Payloads == {<<>>, <<0>>, <<255, 1>>}

(***************************************************************************)
(* u64 arithmetic.  A u64 is kept as four 16-bit limbs, most significant   *)
(* first, so that the full 64-bit width is kept.                           *)
(***************************************************************************)
LimbBase == 65536

U64FromNat(n) == <<0, 0, (n \div LimbBase) % LimbBase, n % LimbBase>>

U64Max == <<LimbBase - 1, LimbBase - 1, LimbBase - 1, LimbBase - 1>>

\* u64::wrapping_add(v, 1), the arithmetic of AtomicU64::fetch_add(1).
U64WrappingInc(v) ==
    IF v[4] + 1 < LimbBase THEN <<v[1], v[2], v[3], v[4] + 1>>
    ELSE IF v[3] + 1 < LimbBase THEN <<v[1], v[2], v[3] + 1, 0>>
    ELSE IF v[2] + 1 < LimbBase THEN <<v[1], v[2] + 1, 0, 0>>
    ELSE IF v[1] + 1 < LimbBase THEN <<v[1] + 1, 0, 0, 0>>
    ELSE <<0, 0, 0, 0>>

U64Less(a, b) ==
    \E i \in 1..4 : a[i] < b[i] /\ \A j \in 1..(i - 1) : a[j] = b[j]

\* u64::MAX - 1.
U64NearMax == <<LimbBase - 1, LimbBase - 1, LimbBase - 1, LimbBase - 2>>

(***************************************************************************)
(* XA: values.                                                             *)
(***************************************************************************)
None == [some |-> FALSE]
Some(x) == [some |-> TRUE, val |-> x]

\* struct OrderAck
OrderAck(order_id, accepted, reason) ==
    [order_id |-> order_id, accepted |-> accepted, reason |-> reason]

\* enum ExecError; a message is its sequence of words.
ValidationFailed(msg) == [variant |-> "ValidationFailed", msg |-> msg]
ConnectionError(msg) == [variant |-> "ConnectionError", msg |-> msg]
Timeout == [variant |-> "Timeout"]

EmptyPayloadMsg == <<"Order", "payload", "cannot", "be", "empty">>

\* str::contains on a message for one word.
Contains(msg, word) == \E i \in 1..Len(msg) : msg[i] = word

\* Result<_, ExecError>
Ok(v) == [kind |-> "Ok", val |-> v]
Err(e) == [kind |-> "Err", err |-> e]
NoResult == [kind |-> "NoResult"]
Unit == "()"

NoCall == [op |-> "none"]

VARIABLES
    ORDER_ID_COUNTER,  \* static AtomicU64
    xpc,               \* per thread: "idle", "alloc" (inside send_order, validated)
    xorder,            \* per thread: the payload of the running send_order
    xseen,             \* per thread, history: what had returned when the running send_order began
    xlast,             \* the call that returned last: operation, argument, result
    epochAcks,         \* history: the successful send_order calls since the last reset, in return order
    quiet,             \* history: no send_order overlapped the last reset or another send_order since
    beforeReset        \* history: the counter the last reset overwrote

xvars == <<ORDER_ID_COUNTER, xpc, xorder, xseen, xlast, epochAcks, quiet, beforeReset>>

VARIABLES
    INIT,          \* init_metrics' Once: "incomplete", "running", "complete"
    REGISTRY,      \* the families registered with the Registry
    ORDERS_TOTAL,  \* the value of the Counter
    LATENCY,       \* the children of the HistogramVec, by operation label
    stderr,        \* the lines written to the diagnostic stream
    epc,           \* per thread: "idle", "init", "reg1", "reg2", "body", "observe"
    ecall,         \* per thread: the running call
    eview,         \* per thread: what the running get_metrics has gathered
    efloor,        \* per thread, history: the emissions completed when get_metrics began
    emitsDone,     \* history: emit_metric("orders_total", _) calls completed
    recordsDone,   \* history: record_latency calls that observed, by operation
    onlyUnknown,   \* history: every call so far was an emit_metric of a name other than orders_total
    nemit,         \* history: emit_metric("orders_total", _) calls begun
    nrecord        \* history: record_latency calls begun that passed the validation

\* The telemetry's variables but the counter.
etail == <<INIT, REGISTRY, LATENCY, stderr, epc, ecall, eview, efloor,
           emitsDone, recordsDone, onlyUnknown, nemit, nrecord>>

evars == <<ORDERS_TOTAL, etail>>

VARIABLES
    slast,   \* the call of keygen, sign or verify that returned last: arguments, result
    skeys,   \* history: by seed, the key the first keygen(seed) returned
    ssigs    \* history: by <<key, payload>>, the signature the first sign returned

svars == <<slast, skeys, ssigs>>

vars == <<xvars, evars, svars>>

\* xseen of a thread outside send_order.
NotStarted == [n |-> 0, within |-> TRUE]

\* The window of counter values in which the model lets send_order begin: the
\* first MaxOrderId values, and the last two before the counter wraps.
CanAllocate(counter) ==
    \/ U64Less(counter, U64FromNat(MaxOrderId))
    \/ ~U64Less(counter, U64NearMax)

InitXA ==
    /\ ORDER_ID_COUNTER = U64FromNat(1)
    /\ xpc = [t \in Threads |-> "idle"]
    /\ xorder = [t \in Threads |-> <<>>]
    /\ xseen = [t \in Threads |-> NotStarted]
    /\ xlast = NoCall
    /\ epochAcks = <<>>
    /\ quiet = TRUE
    /\ beforeReset = None

(***************************************************************************)
(* XA: operations.                                                         *)
(***************************************************************************)
Returned(op, order, result) ==
    [op |-> op, order |-> order, result |-> result]

\* Mutant of ResetValue: the counter is reset to 0 instead of 1.
ResetValueZero == U64FromNat(0)

\* The value reset_order_id_counter stores.
ResetValue == U64FromNat(1)

\* reset_order_id_counter: ORDER_ID_COUNTER.store(1, SeqCst).  A send_order
\* running across the reset belongs to no single epoch.
reset_order_id_counter(t) ==
    /\ xpc[t] = "idle"
    /\ ORDER_ID_COUNTER' = ResetValue
    /\ xlast' = Returned("reset_order_id_counter", <<>>, Unit)
    /\ epochAcks' = <<>>
    /\ xseen' = [u \in Threads |->
                    IF xpc[u] = "alloc" THEN [n |-> 0, within |-> FALSE] ELSE xseen[u]]
    /\ quiet' = (\A u \in Threads : xpc[u] = "idle")
    /\ beforeReset' = Some(ORDER_ID_COUNTER)
    /\ UNCHANGED <<svars, evars, xpc, xorder>>

\* Mutant of FetchAddStored: the counter is read but not advanced (a load).
FetchAddStoredNoInc(old) == old

\* The counter after next_order_id: fetch_add(1, SeqCst) stores old + 1.
FetchAddStored(old) == U64WrappingInc(old)

\* The value next_order_id returns: fetch_add returns the previous value.
FetchAddReturned(old) == old

\* The validation shared by send_order and pre_trade_check: order.is_empty().
IsEmpty(order) == Len(order) = 0

\* Mutant of EmptyOrderError: the rejection is reported as a timeout.
EmptyOrderErrorTimeout == Err(Timeout)

\* Mutant of EmptyOrderError: the rejection is reported as a connection error.
EmptyOrderErrorConnection == Err(ConnectionError(<<"connection", "refused">>))

\* The error both operations return for an empty payload.
EmptyOrderError == Err(ValidationFailed(EmptyPayloadMsg))

\* Mutant of CounterAfterRejected: the id is allocated before the validation,
\* so that a rejected order consumes one.
CounterAfterRejectedConsumed(old) == U64WrappingInc(old)

\* The counter after a send_order that rejects its payload: the error return
\* comes before next_order_id.
CounterAfterRejected(old) == old

\* send_order, entry: the is_empty check and, for an empty payload, the error
\* return.  The model stops allocating at MaxOrderId.
SendOrderBegin(t) ==
    /\ xpc[t] = "idle"
    /\ CanAllocate(ORDER_ID_COUNTER)
    /\ \E order \in Payloads :
        IF IsEmpty(order)
        THEN /\ xlast' = Returned("send_order", order, EmptyOrderError)
             /\ ORDER_ID_COUNTER' = CounterAfterRejected(ORDER_ID_COUNTER)
             /\ UNCHANGED <<xpc, xorder, xseen, quiet>>
        ELSE /\ xpc' = [xpc EXCEPT ![t] = "alloc"]
             /\ xorder' = [xorder EXCEPT ![t] = order]
             /\ xseen' = [xseen EXCEPT ![t] = [n |-> Len(epochAcks), within |-> TRUE]]
             /\ quiet' = (quiet /\ \A u \in Threads : xpc[u] = "idle")
             /\ UNCHANGED <<xlast, ORDER_ID_COUNTER>>
    /\ UNCHANGED <<svars, evars, epochAcks, beforeReset>>

\* Mutant of SendOrderAck: a soft reject is reported through the ack.
SendOrderAckRejected(order_id) == OrderAck(order_id, FALSE, Some(<<"rejected">>))

\* The acknowledgment send_order builds from the allocated id.
SendOrderAck(order_id) == OrderAck(order_id, TRUE, None)

\* Mutant of OrdersTotalAfterSend: send_order counts the order it accepts
\* in orders_total itself.
OrdersTotalAfterSendCounted(c) == c + 1

\* The telemetry's counter after a send_order: send_order makes no call of the
\* telemetry; counting orders is left to the caller.
OrdersTotalAfterSend(c) == c

\* send_order, rest: next_order_id() and the Ok return.
SendOrderAlloc(t) ==
    /\ xpc[t] = "alloc"
    /\ LET order_id == FetchAddReturned(ORDER_ID_COUNTER)
       IN  /\ ORDER_ID_COUNTER' = FetchAddStored(ORDER_ID_COUNTER)
           /\ xlast' = Returned("send_order", xorder[t], Ok(SendOrderAck(order_id)))
           /\ epochAcks' = Append(epochAcks, [order_id |-> order_id,
                                              seen |-> xseen[t].n,
                                              within |-> xseen[t].within])
    /\ xpc' = [xpc EXCEPT ![t] = "idle"]
    /\ xorder' = [xorder EXCEPT ![t] = <<>>]
    /\ xseen' = [xseen EXCEPT ![t] = NotStarted]
    /\ ORDERS_TOTAL' = OrdersTotalAfterSend(ORDERS_TOTAL)
    /\ UNCHANGED <<svars, etail, quiet, beforeReset>>

\* Mutant of PreTradeCheckResult: a size limit is checked as well.
PreTradeCheckResultSizeLimit(order) ==
    IF IsEmpty(order) THEN EmptyOrderError
    ELSE IF Len(order) > 1 THEN Err(ValidationFailed(<<"Order", "payload", "too", "large">>))
    ELSE Ok(Unit)

\* pre_trade_check
PreTradeCheckResult(order) ==
    IF IsEmpty(order) THEN EmptyOrderError ELSE Ok(Unit)

pre_trade_check(t) ==
    /\ xpc[t] = "idle"
    /\ \E order \in Payloads :
        xlast' = Returned("pre_trade_check", order, PreTradeCheckResult(order))
    /\ UNCHANGED <<svars, evars, ORDER_ID_COUNTER, xpc, xorder, xseen, epochAcks, quiet, beforeReset>>

(***************************************************************************)
(* EA: characters and operation names.  A char is its code point; the      *)
(* model covers U+0000..U+00FF, where the Unicode tables below are exact.  *)
(***************************************************************************)
\* Unicode Alphabetic, restricted to U+0000..U+00FF.
IsAlphabetic(c) ==
    \/ c \in 65..90 \/ c \in 97..122
    \/ c \in {170, 181, 186}
    \/ c \in 192..214 \/ c \in 216..246 \/ c \in 248..255

\* Unicode general categories Nd, Nl, No, restricted to U+0000..U+00FF.
IsNumeric(c) == c \in 48..57 \/ c \in {178, 179, 185} \/ c \in 188..190

\* char::is_alphanumeric
IsAlphanumeric(c) == IsAlphabetic(c) \/ IsNumeric(c)

Underscore == 95
Dot == 46

\* Mutant of OperationCharOk: dots are refused.
OperationCharOkNoDot(c) == IsAlphanumeric(c) \/ c = Underscore

\* The closure of record_latency's check: c.is_alphanumeric() || c == '_' || c == '.'
OperationCharOk(c) == IsAlphanumeric(c) \/ c = Underscore \/ c = Dot

\* operation.chars().all(...)
OperationOk(operation) == \A i \in 1..Len(operation) : OperationCharOk(operation[i])

\* Sample operation names, as code points:
\*   ""   "a.b_9"   e-acute (U+00E9) superscript-two (U+00B2)   "a'b"
Operations ==
    { <<>>, <<97, 46, 98, 95, 57>>, <<233, 178>>, <<97, 39, 98>> }

\* Sample durations in microseconds (f64, here whole numbers).
Durations == {0, 10, 100001}

\* Sample calls of record_latency: the well-formed name with every sample
\* duration, and every sample name with the duration 10.
LatencyCalls ==
    {[operation |-> <<97, 46, 98, 95, 57>>, duration_us |-> d] : d \in Durations}
        \cup {[operation |-> o, duration_us |-> 10] : o \in Operations}

\* Sample metric names and values of emit_metric.
MetricNames == {"orders_total", "fills_total"}
MetricValues == {-1, 1000000}

(***************************************************************************)
(* EA: the prometheus collectors.  Seconds are kept in units of 1e-6 s.    *)
(***************************************************************************)
\* duration_us / 1_000_000.0, in units of 1e-6 s.
LatencySeconds(duration_us) == duration_us

\* .buckets(vec![0.00001, 0.0001, 0.001, 0.01, 0.1]), in units of 1e-6 s, and
\* the le label the text format gives each.
BucketBounds == <<10, 100, 1000, 10000, 100000>>
BucketLe == <<"1e-05", "0.0001", "0.001", "0.01", "0.1">>
Buckets == 1..Len(BucketBounds)

\* A histogram child without observations.
NewChild == [count |-> 0, sum |-> 0, buckets |-> [i \in Buckets |-> 0]]

\* Mutant of CounterInc: the value argument is added.
CounterIncByValue(c, value) == c + value

\* ORDERS_TOTAL.inc(); emit_metric ignores its value.
CounterInc(c, value) == c + 1

\* Mutant of EmitMetricCounts: every metric name increments the counter.
EmitMetricCountsAny(name) == TRUE

\* emit_metric's test of the name.
EmitMetricCounts(name) == name = "orders_total"

\* Mutant of Observe: a bucket takes the values strictly below its bound.
ObserveStrict(child, v) ==
    LET fits == {i \in Buckets : v < BucketBounds[i]}
    IN  [count |-> child.count + 1,
         sum |-> child.sum + v,
         buckets |-> IF fits = {} THEN child.buckets
                     ELSE LET first == CHOOSE i \in fits : \A j \in fits : i <= j
                          IN  [child.buckets EXCEPT ![first] = @ + 1]]

\* Histogram::observe(v): the first bucket with v <= bound, the sum, the count.
Observe(child, v) ==
    LET fits == {i \in Buckets : v <= BucketBounds[i]}
    IN  [count |-> child.count + 1,
         sum |-> child.sum + v,
         buckets |-> IF fits = {} THEN child.buckets
                     ELSE LET first == CHOOSE i \in fits : \A j \in fits : i <= j
                          IN  [child.buckets EXCEPT ![first] = @ + 1]]

\* Mutant of WithLabelValues: the vector keeps one child, that of the label
\* asked for last.
WithLabelValuesSingle(latency, operation) ==
    [l \in {operation} |-> IF l \in DOMAIN latency THEN latency[l] ELSE NewChild]

\* HistogramVec::with_label_values(&[operation]): the child, created when absent.
WithLabelValues(latency, operation) ==
    IF operation \in DOMAIN latency THEN latency
    ELSE [l \in DOMAIN latency \cup {operation} |->
             IF l = operation THEN NewChild ELSE latency[l]]

\* Registry::register: refuses a collector that is registered already.
RegisterOk(registry, family) == family \notin registry
Register(registry, family) == registry \cup {family}

\* Mutant of CollectCounter: the counter is reported as it was created.
CollectCounterStale(c) == 0

\* What gather collects of the counter, and of the histogram children.
CollectCounter(c) == c
CollectHistogram(latency) == latency

(***************************************************************************)
(* EA: the text exposition, as the set of its lines.                       *)
(***************************************************************************)
Sample(name, labels, value) == [name |-> name, labels |-> labels, value |-> value]
Comment(kind, name, text) == [name |-> name, comment |-> kind, text |-> text]

RECURSIVE SumTo(_, _)
SumTo(f, n) == IF n = 0 THEN 0 ELSE f[n] + SumTo(f, n - 1)

\* The lines of one histogram child: cumulative buckets, +Inf, sum, count.
ChildLines(operation, child) ==
    LET label == <<"operation", operation>>
    IN  {Sample("latency_seconds_bucket", <<label, <<"le", BucketLe[i]>>>>,
                SumTo(child.buckets, i)) : i \in Buckets}
        \cup {Sample("latency_seconds_bucket", <<label, <<"le", "+Inf">>>>, child.count),
              Sample("latency_seconds_sum", <<label>>, child.sum),
              Sample("latency_seconds_count", <<label>>, child.count)}

\* TextEncoder::encode of the gathered families; gather leaves out a family
\* without samples.
Encode(view) ==
    (IF "orders_total" \in DOMAIN view
     THEN {Comment("HELP", "orders_total", "Total orders sent"),
           Comment("TYPE", "orders_total", "counter"),
           Sample("orders_total", <<>>, view["orders_total"])}
     ELSE {})
    \cup
    (IF "latency_seconds" \in DOMAIN view /\ DOMAIN view["latency_seconds"] # {}
     THEN {Comment("HELP", "latency_seconds", "Operation latency"),
           Comment("TYPE", "latency_seconds", "histogram")}
          \cup UNION {ChildLines(l, view["latency_seconds"][l]) :
                        l \in DOMAIN view["latency_seconds"]}
     ELSE {})

\* The text has a sample labelled operation="<operation>".
HasOperationLabel(text, operation) ==
    \E line \in text :
        /\ "labels" \in DOMAIN line
        /\ Len(line.labels) > 0
        /\ line.labels[1] = <<"operation", operation>>

\* The value of a sample line of the text, -1 when the text has no such line.
SampleValue(text, name, labels) ==
    LET lines == {line \in text : /\ "labels" \in DOMAIN line
                                  /\ line.name = name
                                  /\ line.labels = labels}
    IN  IF lines = {} THEN -1 ELSE (CHOOSE line \in lines : TRUE).value

EmptyMap == [x \in {} |-> 0]

(***************************************************************************)
(* ES: keygen, sign, verify.  A byte is a number in 0..255.  The ChaCha20  *)
(* keystream and HMAC-SHA256 are computed by crates outside the            *)
(* repository: a fixed function of their inputs stands for each, and the   *)
(* model keeps what the repository's code adds: the seeding, the lengths,  *)
(* which key and payload reach the MAC, and the comparison.                *)
(***************************************************************************)
KEY_SIZE == 32
SIG_SIZE == 32

RECURSIVE WeightedSum(_, _)
WeightedSum(bytes, n) ==
    IF n = 0 THEN 0 ELSE n * bytes[n] + WeightedSum(bytes, n - 1)

\* Stands for byte i of the ChaCha20 keystream of a generator seeded with seed.
KeystreamByte(seed, i) ==
    (seed[1] + 3 * seed[2] + 5 * seed[3] + 7 * seed[4] + 11 * i) % 256

\* Stands for HMAC-SHA256 under key over the data fed to the MAC: the state
\* the tag is drawn from, and byte i of the tag.
MacState(key, data) ==
    (WeightedSum(key, Len(key)) + 17 * WeightedSum(data, Len(data))
        + 29 * Len(data)) % 65521

MacByte(state, i) == (state + (state \div 256) + 13 * i) % 256

\* ChaCha20Rng::seed_from_u64(seed): a new generator at the start of its stream.
SeedFromU64(seed) == [seed |-> seed, pos |-> 0]

\* rand::Rng::fill(&mut rng, &mut key[..]): the next n bytes of the stream.
Fill(rng, n) == [i \in 1..n |-> KeystreamByte(rng.seed, rng.pos + i)]

keygen(seed) == Fill(SeedFromU64(seed), KEY_SIZE)

\* HmacSha256::new_from_slice(key): a key of any length is taken.
MacNew(key) == [key |-> key, data |-> <<>>]

\* mac.update(payload)
MacUpdate(mac, payload) == [mac EXCEPT !.data = @ \o payload]

\* mac.finalize().into_bytes().to_vec(): the 32-byte tag.
MacFinalize(mac) ==
    LET state == MacState(mac.key, mac.data)
    IN  [i \in 1..SIG_SIZE |-> MacByte(state, i)]

\* mac.verify_slice(sig).is_ok(): the lengths and every byte agree.
MacVerifySlice(mac, sig) ==
    LET tag == MacFinalize(mac)
    IN  /\ Len(sig) = Len(tag)
        /\ \A i \in 1..Len(tag) : sig[i] = tag[i]

\* Mutant of sign: the payload is not fed to the MAC.
signWithoutUpdate(key, payload) == MacFinalize(MacNew(key))

sign(key, payload) == MacFinalize(MacUpdate(MacNew(key), payload))

verify(key, payload, sig) == MacVerifySlice(MacUpdate(MacNew(key), payload), sig)

\* Sample seeds (u64): 0, 42, u64::MAX.
Seeds == {U64FromNat(0), U64FromNat(42), U64Max}

\* Sample payloads to sign: empty, "hi".
Messages == {<<>>, <<104, 105>>}

\* The keys and signatures returned so far.
KeysSoFar == {skeys[seed] : seed \in DOMAIN skeys}
SigsSoFar == {ssigs[kp] : kp \in DOMAIN ssigs}

\* A signature as an attacker or a faulty channel hands it to verify:
\* unchanged, cut by a byte, with its first byte changed.
Received(sig) ==
    {sig, SubSeq(sig, 1, Len(sig) - 1), [sig EXCEPT ![1] = (@ + 1) % 256]}

\* m with k -> v added unless m has k.
First(m, k, v) ==
    IF k \in DOMAIN m THEN m
    ELSE [x \in DOMAIN m \cup {k} |-> IF x = k THEN v ELSE m[x]]

InitES ==
    /\ slast = NoCall
    /\ skeys = EmptyMap
    /\ ssigs = EmptyMap

Keygen ==
    \E seed \in Seeds :
        LET key == keygen(seed)
        IN  /\ slast' = [op |-> "keygen", seed |-> seed, result |-> key]
            /\ skeys' = First(skeys, seed, key)
            /\ UNCHANGED <<xvars, evars, ssigs>>

Sign ==
    \E key \in KeysSoFar, payload \in Messages :
        LET sig == sign(key, payload)
        IN  /\ slast' = [op |-> "sign", key |-> key, payload |-> payload, result |-> sig]
            /\ ssigs' = First(ssigs, <<key, payload>>, sig)
            /\ UNCHANGED <<xvars, evars, skeys>>

Verify ==
    \E key \in KeysSoFar, payload \in Messages, signed \in SigsSoFar :
        \E sig \in Received(signed) :
            /\ slast' = [op |-> "verify", key |-> key, payload |-> payload,
                         sig |-> sig, result |-> verify(key, payload, sig)]
            /\ UNCHANGED <<xvars, evars, skeys, ssigs>>

(***************************************************************************)
(* EA: state.                                                              *)
(***************************************************************************)

Done(m, k) == IF k \in DOMAIN m THEN m[k] ELSE 0

Floor == [orders |-> emitsDone, records |-> recordsDone]
NoFloor == [orders |-> 0, records |-> EmptyMap]

InitEA ==
    /\ INIT = "incomplete"
    /\ REGISTRY = {}
    /\ ORDERS_TOTAL = 0
    /\ LATENCY = EmptyMap
    /\ stderr = {}
    /\ epc = [t \in Producers |-> "idle"]
    /\ ecall = [t \in Producers |-> NoCall]
    /\ eview = [t \in Producers |-> EmptyMap]
    /\ efloor = [t \in Producers |-> NoFloor]
    /\ emitsDone = 0
    /\ recordsDone = EmptyMap
    /\ onlyUnknown = TRUE
    /\ nemit = 0
    /\ nrecord = 0

Init == InitXA /\ InitEA /\ InitES

\* The process after 2^64 - 3 successful send_order calls and no reset: the
\* counter, which started at 1, stands at u64::MAX - 1.  The history variables
\* cover the calls made from here on.
InitXANearWrap ==
    /\ ORDER_ID_COUNTER = U64NearMax
    /\ xpc = [t \in Threads |-> "idle"]
    /\ xorder = [t \in Threads |-> <<>>]
    /\ xseen = [t \in Threads |-> NotStarted]
    /\ xlast = NoCall
    /\ epochAcks = <<>>
    /\ quiet = TRUE
    /\ beforeReset = None

InitNearWrap == InitXANearWrap /\ InitEA /\ InitES

(***************************************************************************)
(* EA: operations.                                                         *)
(***************************************************************************)
\* Mutant of CallOncePc: a flag tested and set apart, so that a caller arriving
\* while the closure runs enters the closure too.
CallOncePcNoWait == IF INIT = "complete" THEN "body" ELSE "reg1"

\* init_metrics, INIT.call_once, as a caller arrives: a complete Once lets it
\* pass, an incomplete one makes it run the closure, a running one makes it wait.
CallOncePc ==
    IF INIT = "complete" THEN "body"
    ELSE IF INIT = "incomplete" THEN "reg1"
    ELSE "init"

CallOnceState == IF INIT = "incomplete" THEN "running" ELSE INIT

\* emit_metric, entry, up to INIT.call_once.  The model stops counting at
\* MaxOrdersTotal.
EmitMetricBegin(t) ==
    /\ epc[t] = "idle"
    /\ \E name \in MetricNames, value \in MetricValues :
        /\ EmitMetricCounts(name) => nemit < MaxOrdersTotal
        /\ nemit' = IF EmitMetricCounts(name) THEN nemit + 1 ELSE nemit
        /\ ecall' = [ecall EXCEPT ![t] =
                        [op |-> "emit_metric", name |-> name, value |-> value]]
        /\ onlyUnknown' = (onlyUnknown /\ name # "orders_total")
    /\ epc' = [epc EXCEPT ![t] = CallOncePc]
    /\ INIT' = CallOnceState
    /\ UNCHANGED <<svars, xvars, REGISTRY, ORDERS_TOTAL, LATENCY, stderr, eview, efloor,
                   emitsDone, recordsDone, nrecord>>

\* The line record_latency writes for a refused operation name.
InvalidOperationLine(operation) == <<"Invalid operation name:", operation>>

\* record_latency, entry: the validation and, for a refused name, the return;
\* else up to INIT.call_once.  The model stops observing at MaxObservations.
RecordLatencyBegin(t) ==
    /\ epc[t] = "idle"
    /\ \E call \in LatencyCalls :
        LET operation == call.operation
            duration_us == call.duration_us
        IN
        /\ onlyUnknown' = FALSE
        /\ IF ~OperationOk(operation)
           THEN /\ stderr' = stderr \cup {InvalidOperationLine(operation)}
                /\ UNCHANGED <<INIT, epc, ecall, nrecord>>
           ELSE /\ nrecord < MaxObservations
                /\ nrecord' = nrecord + 1
                /\ epc' = [epc EXCEPT ![t] = CallOncePc]
                /\ INIT' = CallOnceState
                /\ ecall' = [ecall EXCEPT ![t] =
                                [op |-> "record_latency", operation |-> operation,
                                 duration_us |-> duration_us]]
                /\ UNCHANGED stderr
    /\ UNCHANGED <<svars, xvars, REGISTRY, ORDERS_TOTAL, LATENCY, eview, efloor, emitsDone,
                   recordsDone, nemit>>

\* get_metrics, entry, up to INIT.call_once.
GetMetricsBegin(t) ==
    /\ epc[t] = "idle"
    /\ ecall' = [ecall EXCEPT ![t] = [op |-> "get_metrics"]]
    /\ onlyUnknown' = FALSE
    /\ epc' = [epc EXCEPT ![t] = CallOncePc]
    /\ INIT' = CallOnceState
    /\ eview' = [eview EXCEPT ![t] = EmptyMap]
    /\ efloor' = [efloor EXCEPT ![t] = Floor]
    /\ UNCHANGED <<svars, xvars, REGISTRY, ORDERS_TOTAL, LATENCY, stderr, emitsDone,
                   recordsDone, nemit, nrecord>>

\* init_metrics, INIT.call_once: a caller that waited finds the Once complete.
InitMetricsWaited(t) ==
    /\ epc[t] = "init"
    /\ INIT = "complete"
    /\ epc' = [epc EXCEPT ![t] = "body"]
    /\ UNCHANGED <<svars, xvars, INIT, REGISTRY, ORDERS_TOTAL, LATENCY, stderr, ecall, eview,
                   efloor, emitsDone, recordsDone, onlyUnknown, nemit, nrecord>>

\* The line the closure writes when a registration fails.
RegisterFailedLine(what) == <<"Failed to register", what>>

\* The closure: REGISTRY.register(ORDERS_TOTAL), failure logged.
RegisterOrdersTotal(t) ==
    /\ epc[t] = "reg1"
    /\ IF RegisterOk(REGISTRY, "orders_total")
       THEN REGISTRY' = Register(REGISTRY, "orders_total") /\ stderr' = stderr
       ELSE REGISTRY' = REGISTRY
            /\ stderr' = stderr \cup {RegisterFailedLine("ORDERS_TOTAL")}
    /\ epc' = [epc EXCEPT ![t] = "reg2"]
    /\ UNCHANGED <<svars, xvars, INIT, ORDERS_TOTAL, LATENCY, ecall, eview, efloor,
                   emitsDone, recordsDone, onlyUnknown, nemit, nrecord>>

\* Mutant of OnceAfterClosure: the Once is left as it was created, as by a flag
\* that is never set.
OnceAfterClosureUnset == "incomplete"

\* The state call_once leaves the Once in when the closure has returned.
OnceAfterClosure == "complete"

\* The closure: REGISTRY.register(LATENCY), failure logged; the Once completes.
RegisterLatency(t) ==
    /\ epc[t] = "reg2"
    /\ IF RegisterOk(REGISTRY, "latency_seconds")
       THEN REGISTRY' = Register(REGISTRY, "latency_seconds") /\ stderr' = stderr
       ELSE REGISTRY' = REGISTRY
            /\ stderr' = stderr \cup {RegisterFailedLine("LATENCY")}
    /\ INIT' = OnceAfterClosure
    /\ epc' = [epc EXCEPT ![t] = "body"]
    /\ UNCHANGED <<svars, xvars, ORDERS_TOTAL, LATENCY, ecall, eview, efloor, emitsDone,
                   recordsDone, onlyUnknown, nemit, nrecord>>

\* emit_metric, after init_metrics: the test of the name, the increment, the
\* return.
EmitMetricBody(t) ==
    /\ epc[t] = "body"
    /\ ecall[t].op = "emit_metric"
    /\ IF EmitMetricCounts(ecall[t].name)
       THEN ORDERS_TOTAL' = CounterInc(ORDERS_TOTAL, ecall[t].value)
       ELSE ORDERS_TOTAL' = ORDERS_TOTAL
    /\ emitsDone' = IF ecall[t].name = "orders_total" THEN emitsDone + 1 ELSE emitsDone
    /\ epc' = [epc EXCEPT ![t] = "idle"]
    /\ ecall' = [ecall EXCEPT ![t] = NoCall]
    /\ UNCHANGED <<svars, xvars, INIT, REGISTRY, LATENCY, stderr, eview, efloor, recordsDone,
                   onlyUnknown, nemit, nrecord>>

\* record_latency, after init_metrics: LATENCY.with_label_values(&[operation]).
RecordLatencyLabel(t) ==
    /\ epc[t] = "body"
    /\ ecall[t].op = "record_latency"
    /\ LATENCY' = WithLabelValues(LATENCY, ecall[t].operation)
    /\ epc' = [epc EXCEPT ![t] = "observe"]
    /\ UNCHANGED <<svars, xvars, INIT, REGISTRY, ORDERS_TOTAL, stderr, ecall, eview, efloor,
                   emitsDone, recordsDone, onlyUnknown, nemit, nrecord>>

\* record_latency, the end: .observe(duration_us / 1_000_000.0), the return.
RecordLatencyObserve(t) ==
    /\ epc[t] = "observe"
    /\ LET operation == ecall[t].operation
       IN  /\ LATENCY' = [LATENCY EXCEPT ![operation] =
                            Observe(@, LatencySeconds(ecall[t].duration_us))]
           /\ recordsDone' =
                [l \in DOMAIN recordsDone \cup {operation} |->
                    IF l = operation THEN Done(recordsDone, l) + 1 ELSE recordsDone[l]]
    /\ epc' = [epc EXCEPT ![t] = "idle"]
    /\ ecall' = [ecall EXCEPT ![t] = NoCall]
    /\ UNCHANGED <<svars, xvars, INIT, REGISTRY, ORDERS_TOTAL, stderr, eview, efloor, emitsDone,
                   onlyUnknown, nemit, nrecord>>

\* What gather collects of one registered family.
Collect(family) ==
    IF family = "orders_total" THEN CollectCounter(ORDERS_TOTAL)
    ELSE CollectHistogram(LATENCY)

\* get_metrics, after init_metrics: REGISTRY.gather() collects the registered
\* families one at a time, in no fixed order; after the last, the encoding and
\* the return.
GetMetricsGather(t) ==
    /\ epc[t] = "body"
    /\ ecall[t].op = "get_metrics"
    /\ IF REGISTRY \subseteq DOMAIN eview[t]
       THEN /\ epc' = [epc EXCEPT ![t] = "idle"]
            /\ ecall' = [ecall EXCEPT ![t] = NoCall]
            /\ eview' = [eview EXCEPT ![t] = EmptyMap]
            /\ efloor' = [efloor EXCEPT ![t] = NoFloor]
       ELSE /\ \E family \in REGISTRY \ DOMAIN eview[t] :
                eview' = [eview EXCEPT ![t] =
                            [f \in DOMAIN @ \cup {family} |->
                                IF f = family THEN Collect(family) ELSE @[f]]]
            /\ UNCHANGED <<epc, ecall, efloor>>
    /\ UNCHANGED <<svars, xvars, INIT, REGISTRY, ORDERS_TOTAL, LATENCY, stderr, emitsDone,
                   recordsDone, onlyUnknown, nemit, nrecord>>

NextEA ==
    \E t \in Producers :
        \/ EmitMetricBegin(t)
        \/ RecordLatencyBegin(t)
        \/ GetMetricsBegin(t)
        \/ InitMetricsWaited(t)
        \/ RegisterOrdersTotal(t)
        \/ RegisterLatency(t)
        \/ EmitMetricBody(t)
        \/ RecordLatencyLabel(t)
        \/ RecordLatencyObserve(t)
        \/ GetMetricsGather(t)

NextXA ==
    \E t \in Threads :
        \/ reset_order_id_counter(t)
        \/ SendOrderBegin(t)
        \/ SendOrderAlloc(t)
        \/ pre_trade_check(t)

NextES == Keygen \/ Sign \/ Verify

Next == NextXA \/ NextEA \/ NextES

\* The libraries share no state: each is checked alone (SpecXA, SpecEA,
\* SpecES); Spec is the process that uses them all.
SpecXA == Init /\ [][NextXA]_vars
SpecEA == Init /\ [][NextEA]_vars
Spec == Init /\ [][Next]_vars

\* The encryption service: pure functions, called one at a time.
SpecES == Init /\ [][NextES]_vars

\* A process in which one thread submits orders and one reports metrics.
NextProcess ==
    \/ reset_order_id_counter(1)
    \/ SendOrderBegin(1)
    \/ SendOrderAlloc(1)
    \/ pre_trade_check(1)
    \/ EmitMetricBegin(1)
    \/ RecordLatencyBegin(1)
    \/ GetMetricsBegin(1)
    \/ RegisterOrdersTotal(1)
    \/ RegisterLatency(1)
    \/ EmitMetricBody(1)
    \/ RecordLatencyLabel(1)
    \/ RecordLatencyObserve(1)
    \/ GetMetricsGather(1)

SpecProcess == Init /\ [][NextProcess]_vars

\* The execution adapter from the state InitNearWrap on.
SpecXANearWrap == InitNearWrap /\ [][NextXA]_vars

(***************************************************************************)
(* XA: properties.                                                         *)
(***************************************************************************)
\* The calls of the current reset epoch that both began and returned in it.
Within == {i \in 1..Len(epochAcks) : epochAcks[i].within}

\* Call i had returned when call j began.
Precedes(i, j) == i <= epochAcks[j].seen

\* C1: among the successful send_order calls of one reset epoch (no
\* reset_order_id_counter between them), no two return the same order_id, and
\* a call that begins after another has returned gets a strictly greater id.
C1_UniqueIncreasingInEpoch ==
    \A i, j \in Within :
        i # j => /\ epochAcks[i].order_id # epochAcks[j].order_id
                 /\ Precedes(i, j) =>
                        U64Less(epochAcks[i].order_id, epochAcks[j].order_id)

\* C1 witness: one epoch holds two calls in sequence and two that overlapped.
C1_Witness ==
    /\ \E i, j \in Within : Precedes(i, j)
    /\ \E i, j \in Within : i < j /\ ~Precedes(i, j)

\* C2: send_order with a non-empty payload returns an Ack with accepted = true
\* and no reason, and no Ack it returns is a rejection.
C2_AckAccepted ==
    xlast.op = "send_order" =>
        /\ Len(xlast.order) > 0 =>
            /\ xlast.result.kind = "Ok"
            /\ xlast.result.val.accepted = TRUE
            /\ xlast.result.val.reason = None
        /\ xlast.result.kind = "Ok" =>
            /\ xlast.result.val.accepted = TRUE
            /\ xlast.result.val.reason = None

\* C2 witness: a send_order with a non-empty payload has returned its Ack.
C2_Witness ==
    /\ xlast.op = "send_order"
    /\ Len(xlast.order) > 0
    /\ xlast.result.kind = "Ok"

\* C3: send_order with an empty payload returns ValidationFailed with the
\* message "Order payload cannot be empty", which contains "empty", whatever
\* the allocator holds.
C3_EmptyRejected ==
    (xlast.op = "send_order" /\ Len(xlast.order) = 0) =>
        /\ xlast.result.kind = "Err"
        /\ xlast.result.err.variant = "ValidationFailed"
        /\ xlast.result.err.msg = <<"Order", "payload", "cannot", "be", "empty">>
        /\ Contains(xlast.result.err.msg, "empty")

\* C3 witness: an empty payload was rejected after ids had been allocated.
C3_Witness ==
    /\ xlast.op = "send_order"
    /\ Len(xlast.order) = 0
    /\ xlast.result.kind = "Err"
    /\ ORDER_ID_COUNTER # U64FromNat(1)

\* C4: after a reset with no send_order running, and send_order calls made one
\* at a time since, the k-th successful send_order returned order_id k.
C4_SequentialAfterReset ==
    (beforeReset.some /\ quiet) =>
        \A k \in 1..Len(epochAcks) : epochAcks[k].order_id = U64FromNat(k)

\* C4 witness: two ids were allocated before a reset and two one at a time
\* after it.
C4_Witness ==
    /\ beforeReset.some
    /\ beforeReset.val = U64FromNat(3)
    /\ quiet
    /\ Len(epochAcks) >= 2

\* C14: pre_trade_check returns Ok(()) for every non-empty payload, and an
\* error exactly for the empty one: ValidationFailed with a message that
\* contains "empty".
C14_PreTradeCheckOnlyEmpty ==
    xlast.op = "pre_trade_check" =>
        /\ Len(xlast.order) > 0 => xlast.result = [kind |-> "Ok", val |-> "()"]
        /\ Len(xlast.order) = 0 =>
            /\ xlast.result.kind = "Err"
            /\ xlast.result.err.variant = "ValidationFailed"
            /\ \E i \in 1..Len(xlast.result.err.msg) : xlast.result.err.msg[i] = "empty"
        /\ xlast.result.kind = "Err" => Len(xlast.order) = 0

\* C14 witness: pre_trade_check has passed a payload of several bytes.
C14_Witness ==
    /\ xlast.op = "pre_trade_check"
    /\ Len(xlast.order) > 1
    /\ xlast.result.kind = "Ok"

\* C16: an error send_order or pre_trade_check returns is ValidationFailed,
\* never Timeout or ConnectionError.
C16_OnlyValidationFailed ==
    (xlast.op \in {"send_order", "pre_trade_check"} /\ xlast.result.kind = "Err") =>
        /\ xlast.result.err.variant \notin {"Timeout", "ConnectionError"}
        /\ xlast.result.err.variant = "ValidationFailed"

\* C16 witness: pre_trade_check has returned an error.
C16_Witness ==
    /\ xlast.op = "pre_trade_check"
    /\ xlast.result.kind = "Err"

\* C15: the allocator's value is at least 1 in every state, and every Ack
\* send_order returns carries an order_id of at least 1, after any number of
\* allocations.
C15_IdsAtLeastOne ==
    /\ ORDER_ID_COUNTER # <<0, 0, 0, 0>>
    /\ (xlast.op = "send_order" /\ xlast.result.kind = "Ok")
            => xlast.result.val.order_id # <<0, 0, 0, 0>>

\* A step in which a call returns without an id: a send_order that rejects
\* its payload, or a pre_trade_check.
RejectedOrCheckStep ==
    /\ xpc' = xpc
    /\ \/ xlast'.op = "pre_trade_check"
       \/ xlast'.op = "send_order" /\ xlast'.result.kind = "Err"

\* C20: a send_order that rejects an empty payload, and a pre_trade_check,
\* leave the allocator as it was, so that the successful send_order calls of
\* an epoch hold the ids 1, 2, 3, ... without a gap, whatever rejected calls
\* came between them.
C20_RejectedConsumesNoId ==
    /\ [][RejectedOrCheckStep => ORDER_ID_COUNTER' = ORDER_ID_COUNTER]_vars
    /\ []({epochAcks[i].order_id : i \in 1..Len(epochAcks)}
            = {U64FromNat(k) : k \in 1..Len(epochAcks)})

\* C20 witness: a send_order has just been rejected in an epoch that holds two
\* successful calls.
C20_Witness ==
    /\ xlast.op = "send_order"
    /\ xlast.result.kind = "Err"
    /\ Len(epochAcks) >= 2

(***************************************************************************)
(* EA: properties.                                                         *)
(***************************************************************************)
\* The label grammar [A-Za-z0-9_.].
IsAsciiLabelChar(c) ==
    c \in 48..57 \/ c \in 65..90 \/ c \in 97..122 \/ c = 95 \/ c = 46

\* An operation value of the grammar [A-Za-z0-9_.]+.
IsLabel(operation) ==
    /\ Len(operation) > 0
    /\ \A i \in 1..Len(operation) : IsAsciiLabelChar(operation[i])

\* The _count of a series, 0 when there is no such series.
Count(latency, operation) ==
    IF operation \in DOMAIN latency THEN latency[operation].count ELSE 0

\* The registry once init_metrics has returned.
RegistryAfterInit ==
    IF INIT = "complete" THEN REGISTRY
    ELSE REGISTRY \cup {"orders_total", "latency_seconds"}

\* The text a get_metrics call returns that runs from this state with no
\* other call beside it.
SoloText == Encode([family \in RegistryAfterInit |-> Collect(family)])

\* Producer t takes this step inside a call that satisfies Is.
StepOf(t, Is(_)) ==
    /\ epc'[t] # epc[t]
    /\ Is(IF epc[t] = "idle" THEN ecall'[t] ELSE ecall[t])

\* C5: an operation with a character outside [A-Za-z0-9_.] is never
\* recorded: no series carries it as its label.
C5_OutsideGrammarNeverRecorded ==
    \A operation \in DOMAIN LATENCY :
        \A i \in 1..Len(operation) : IsAsciiLabelChar(operation[i])

\* C6: the empty operation name is dropped: no series carries the empty label.
C6_EmptyOperationDropped == <<>> \notin DOMAIN LATENCY

IsUnknownEmit(call) == call.op = "emit_metric" /\ call.name # "orders_total"

\* C8: no step of emit_metric with a name other than orders_total changes the
\* counter, a histogram series, or the text get_metrics returns.
C8_UnknownNameNoEffect ==
    [][\A t \in Producers :
        StepOf(t, IsUnknownEmit)
            => /\ ORDERS_TOTAL' = ORDERS_TOTAL
               /\ LATENCY' = LATENCY
               /\ SoloText' = SoloText]_vars

\* C8 witness: the process has made only emit_metric calls of other names, the
\* first of which ran the registration, and all have returned.
C8_Witness ==
    /\ onlyUnknown
    /\ INIT = "complete"
    /\ \A t \in Producers : epc[t] = "idle"

\* C9: orders_total equals the number of completed
\* emit_metric("orders_total", v) calls, and no step decreases it.
C9_CounterCountsEmits ==
    /\ [](ORDERS_TOTAL = emitsDone)
    /\ [][ORDERS_TOTAL' >= ORDERS_TOTAL]_vars

\* C9 witness: two such calls have completed.
C9_Witness == emitsDone >= 2 /\ ORDERS_TOTAL >= 2

\* get_metrics of producer t has gathered every family and is about to return.
Gathered(t) ==
    /\ epc[t] = "body"
    /\ ecall[t].op = "get_metrics"
    /\ REGISTRY \subseteq DOMAIN eview[t]

\* C10: the text get_metrics returns reports a counter and, for each label, a
\* _count at least as large as the emissions completed before it began.
C10_SnapshotIncludesCompleted ==
    \A t \in Producers :
        Gathered(t) =>
            LET text == Encode(eview[t])
            IN  /\ SampleValue(text, "orders_total", <<>>) >= efloor[t].orders
                /\ \A operation \in DOMAIN efloor[t].records :
                       SampleValue(text, "latency_seconds_count",
                                   <<<<"operation", operation>>>>)
                           >= efloor[t].records[operation]

\* C10 witness: a get_metrics that began after an emit_metric and a
\* record_latency had completed is about to return.
C10_Witness ==
    \E t \in Producers :
        /\ Gathered(t)
        /\ efloor[t].orders >= 1
        /\ \E operation \in DOMAIN efloor[t].records :
               efloor[t].records[operation] >= 1

\* The producers inside the closure of init_metrics.
Registering == {t \in Producers : epc[t] \in {"reg1", "reg2"}}

BothRegistered == REGISTRY = {"orders_total", "latency_seconds"}

\* C11: with producers making their first calls concurrently, the closure that
\* registers orders_total and latency_seconds runs once (one producer at a
\* time is inside it, none after it completed, and no registration is ever
\* refused as a duplicate), a call of init_metrics after that changes nothing,
\* and no producer is past init_metrics, about to increment, observe or
\* gather, before both registrations are made.
C11_RegisteredExactlyOnce ==
    /\ [](/\ Cardinality(Registering) <= 1
          /\ INIT = "incomplete" => (Registering = {} /\ REGISTRY = {})
          /\ INIT = "running" => Cardinality(Registering) = 1
          /\ INIT = "complete" => (Registering = {} /\ BothRegistered)
          /\ \A t \in Producers :
                epc[t] \in {"body", "observe"} => (INIT = "complete" /\ BothRegistered)
          /\ RegisterFailedLine("ORDERS_TOTAL") \notin stderr
          /\ RegisterFailedLine("LATENCY") \notin stderr)
    /\ [][INIT = "complete" => (INIT' = "complete" /\ REGISTRY' = REGISTRY)]_vars

\* C11 witness: two first calls overlap: one producer is inside the closure,
\* between the two registrations, and the other waits at the Once.
C11_Witness ==
    \E t, u \in Producers : epc[t] = "reg2" /\ epc[u] = "init"

\* The state variable initialized of the emission API.
initialized == INIT = "complete"

\* Producer t returns from a call that went through init_metrics.
ReturnsFromCall(t) == epc[t] # "idle" /\ epc'[t] = "idle"

\* A record_latency call refuses its operation name and returns.
ReturnsRefused ==
    \E operation \in Operations :
        /\ InvalidOperationLine(operation) \in stderr'
        /\ InvalidOperationLine(operation) \notin stderr

\* C12, as claimed: initialized starts false, never returns to false, and is
\* true when any call of emit_metric, record_latency (also one that refuses
\* its operation name) or get_metrics has returned.
C12_InitializedAfterAnyCall ==
    /\ ~initialized
    /\ [][initialized => initialized']_vars
    /\ [][((\E t \in Producers : ReturnsFromCall(t)) \/ ReturnsRefused)
            => initialized']_vars

\* C12, amended: initialized starts false, never returns to false, and is
\* true when a call of emit_metric, of get_metrics, or of record_latency with
\* an operation name that passes the validation has returned; a
\* record_latency call that refuses its operation name returns before
\* init_metrics and leaves initialized as it was.
C12_InitializedAfterAcceptedCall ==
    /\ ~initialized
    /\ [][initialized => initialized']_vars
    /\ [][(\E t \in Producers : ReturnsFromCall(t)) => initialized']_vars
    /\ [][ReturnsRefused => INIT' = INIT]_vars

\* C12 witness: a refused record_latency has returned, a call that went
\* through init_metrics has completed it, and no call is running.
C12_Witness ==
    /\ initialized
    /\ \E operation \in Operations : InvalidOperationLine(operation) \in stderr
    /\ \A t \in Producers : epc[t] = "idle"

\* The value of the latency_seconds_bucket line of a series in the text of
\* the histogram family.
BucketLine(latency, operation, le) ==
    SampleValue(Encode([family \in {"latency_seconds"} |-> CollectHistogram(latency)]),
                "latency_seconds_bucket",
                <<<<"operation", operation>>, <<"le", le>>>>)

\* C13: the observation of record_latency(op, d) raises the cumulative bucket
\* of upper bound b (10, 100, 1000, 10000, 100000 microseconds, written
\* le=1e-05 .. le=0.1) by one exactly when d <= b, and the +Inf bucket always:
\* d = 0 is counted in the lowest bucket and so in all, d > 100000 in +Inf
\* and in none of the five.
C13_BucketsInclusive ==
    [][\A t \in Producers :
        (epc[t] = "observe" /\ epc'[t] = "idle") =>
            LET operation == ecall[t].operation
                d == ecall[t].duration_us
                bound == <<10, 100, 1000, 10000, 100000>>
                le == <<"1e-05", "0.0001", "0.001", "0.01", "0.1">>
                Raised(l) == BucketLine(LATENCY', operation, l)
                                - BucketLine(LATENCY, operation, l)
            IN  /\ \A i \in 1..5 : Raised(le[i]) = IF d <= bound[i] THEN 1 ELSE 0
                /\ Raised("+Inf") = 1
                /\ d = 0 => \A i \in 1..5 : Raised(le[i]) = 1
                /\ d > 100000 => \A i \in 1..5 : Raised(le[i]) = 0]_vars

\* C13 witness: one series holds an observation counted in the lowest bucket
\* and one counted in +Inf only.
C13_Witness ==
    \E operation \in DOMAIN LATENCY :
        /\ BucketLine(LATENCY, operation, "1e-05") >= 1
        /\ BucketLine(LATENCY, operation, "+Inf")
                > BucketLine(LATENCY, operation, "0.1")

IsRecordLatency(call) == call.op = "record_latency"

IsCountingEmit(call) == call.op = "emit_metric" /\ call.name = "orders_total"

\* The call producer t is in, or enters in this step.
CallOf(t) == IF epc[t] = "idle" THEN ecall'[t] ELSE ecall[t]

\* C18: every step of a record_latency call that passed the validation leaves
\* orders_total and the series (_count, _sum, buckets) of every other label
\* as they were, and the call adds one observation to the series of its own
\* label; every step of emit_metric("orders_total", v) leaves every series
\* as it was.
C18_RecordTouchesOneSeries ==
    [][\A t \in Producers :
        /\ StepOf(t, IsRecordLatency) =>
            LET operation == CallOf(t).operation
            IN  /\ ORDERS_TOTAL' = ORDERS_TOTAL
                /\ DOMAIN LATENCY' \subseteq DOMAIN LATENCY \cup {operation}
                /\ \A l \in DOMAIN LATENCY \ {operation} :
                       /\ l \in DOMAIN LATENCY'
                       /\ LATENCY'[l] = LATENCY[l]
                       /\ ChildLines(l, LATENCY'[l]) = ChildLines(l, LATENCY[l])
                /\ Count(LATENCY', operation) =
                       Count(LATENCY, operation) + (IF epc[t] = "observe" THEN 1 ELSE 0)
        /\ StepOf(t, IsCountingEmit) => LATENCY' = LATENCY]_vars

\* C18 witness: two series hold an observation each and orders_total has
\* been raised.
C18_Witness ==
    /\ ORDERS_TOTAL >= 1
    /\ \E l, m \in DOMAIN LATENCY :
           l # m /\ LATENCY[l].count >= 1 /\ LATENCY[m].count >= 1

AdapterStep == xvars' # xvars

\* A step in which emit_metric("orders_total", v) makes its increment.
CountingEmitStep ==
    \E t \in Producers :
        /\ epc[t] = "body"
        /\ epc'[t] = "idle"
        /\ ecall[t].op = "emit_metric"
        /\ ecall[t].name = "orders_total"

\* C19: no step of send_order, pre_trade_check or reset_order_id_counter
\* changes orders_total or a histogram series; orders_total changes only in
\* a call emit_metric("orders_total", v).
C19_AdapterLeavesMetrics ==
    /\ [][AdapterStep => (ORDERS_TOTAL' = ORDERS_TOTAL /\ LATENCY' = LATENCY)]_vars
    /\ [][ORDERS_TOTAL' # ORDERS_TOTAL => CountingEmitStep]_vars

\* C19 witness: two orders have been accepted and one rejected call returned
\* last, while orders_total, raised by the one emit_metric call, stands at 1
\* and a series holds an observation.
C19_Witness ==
    /\ Len(epochAcks) >= 2
    /\ xlast.op \in {"send_order", "pre_trade_check"}
    /\ xlast.result.kind = "Err"
    /\ ORDERS_TOTAL = 1
    /\ \E operation \in DOMAIN LATENCY : LATENCY[operation].count >= 1

====
